---------------------------- MODULE Spec2Model ----------------------------
(***************************************************************************)
(* Model of the conversational record-mutation pipeline of the clinical    *)
(* translator: update_record_data (the Record Mutator), and the chat       *)
(* handler patient_chat_interface with regenerate_quick_summary and        *)
(* save_patient_data.                                                      *)
(* Three specifications: MutatorSpec (update_record_data alone), Spec (the *)
(* chat handler in a loaded session) and AppSpec (two sessions on one      *)
(* store: initialize_state, add patient, synthesis, chat).                 *)
(*                                                                         *)
(* Encoding of Python values.  A dict is a TLA+ record over its keys (the  *)
(* empty dict is the function with the empty domain).  A value that can be *)
(* something other than a dict carries its Python type in a "py_type"      *)
(* field: None, a str, a list.  String values of dict keys are strings.    *)
(***************************************************************************)
EXTENDS Integers, Sequences, FiniteSets, TLC

VARIABLES
    patients,      \* st.session_state.patients : patient id -> patient dict
    store,         \* Firestore collection "patients" : patient id -> document
    db,            \* the module-level Firestore client of app.py: "Ready" or "None"
    chat_history,  \* st.session_state["chat_history_<id>"], or NoHistory before the first render
    notices,       \* st.toast / st.error / st.warning calls of the last step, in order
    db_writes,     \* document set() attempts made by the last step
    model_calls,   \* generate_content calls made by the last step
    raised,        \* exception that escaped the last handler run ("none" if it returned or reran)
    call,          \* what the last handler run was given (NoCall before any)
    sleeps,        \* arguments of the time.sleep calls of the last step, in order
    load_cache,    \* st.cache_data entry of load_patients_from_firestore (NotCached before the first call)
    peer_patients, \* st.session_state.patients of a second session of the same app (NotLoaded before its first run)
    synthesis_cache, \* st.cache_data entries of translate_clinical_note_multi : uploaded files -> kept outcome, or NotCached
    pc             \* where the script of each session stands: "start" before its first run, "save_demo_1" and
                   \* "save_demo_2" before lines 193 and 194 of initialize_state, "ready" between runs

vars == <<patients, store, db, chat_history, notices, db_writes, model_calls, raised, call,
          sleeps, load_cache, peer_patients, synthesis_cache, pc>>

---------------------------------------------------------------------------
(* Python values *)

NoneVal == [py_type |-> "NoneType"]
StrVal(s) == [py_type |-> "str", text |-> s]
ListVal(xs) == [py_type |-> "list", items |-> xs]
EmptyDict == [k \in {} |-> ""]

IsDict(v) == "py_type" \notin DOMAIN v
IsList(v) == ~IsDict(v) /\ v.py_type = "list"
IsStr(v) == ~IsDict(v) /\ v.py_type = "str"

\* dict.get(key, default)
Get(d, key, default) == IF key \in DOMAIN d THEN d[key] ELSE default

\* d[key] = value on a dict: the key is added or overwritten, the others are kept
SetItem(d, key, value) ==
    [k \in DOMAIN d \cup {key} |-> IF k = key THEN value ELSE d[k]]

\* a membership test that looks at the first entry only
InListHeadOnly(x, xs) == xs # <<>> /\ xs[1] = x

\* x in xs, for a list
InList(x, xs) == \E i \in 1..Len(xs) : xs[i] = x

---------------------------------------------------------------------------
(* Clinical terms used as list entries and as directive details *)

Lisinopril ==
    [standard_name |-> "Lisinopril", standard_code_type |-> "RxNorm",
     standard_code_value |-> "29046"]
LisinoprilAlt ==
    [standard_name |-> "Lisinopril", standard_code_type |-> "RxNorm",
     standard_code_value |-> "314076"]
LisinoprilDose ==
    [standard_name |-> "Lisinopril", standard_code_type |-> "RxNorm",
     standard_code_value |-> "29046", dose |-> "10 mg"]
Hypertension ==
    [standard_name |-> "Hypertension", standard_code_type |-> "SNOMED_CT",
     standard_code_value |-> "38341003"]

\* dicts carrying the three ClinicalTerm fields
Terms == {Lisinopril, LisinoprilAlt, LisinoprilDose, Hypertension}

\* details that are not ClinicalTerm-shaped: a dict without standard_code_value, a dict
\* with the name only, the empty dict (the default of mod.get("details", {})), JSON
\* null, and a JSON string
NoCodeValue == [standard_name |-> "Lisinopril", standard_code_type |-> "RxNorm"]
NameOnly == [standard_name |-> "Hypertension"]
Malformed == {NoCodeValue, NameOnly, EmptyDict, NoneVal, StrVal("Lisinopril")}

DetailsValues == Terms \cup Malformed

---------------------------------------------------------------------------
(* Strings.  A string is an atom of the model; the substrings the code tests *)
(* for are tabulated for the strings that occur.                             *)

KeywordsIn(s) ==
    CASE s = "I will add it." -> {"add"}
      [] s = "Please add lisinopril." -> {"add"}
      [] s = "I can remove it." -> {"remove"}
      [] s = "add" -> {"add"}
      [] s = "remove" -> {"remove"}
      [] OTHER -> {}

\* sub in s, for str s
StrContains(s, sub) == s = sub \/ sub \in KeywordsIn(s)

---------------------------------------------------------------------------
(* update_record_data (src/patient_chatbot.py:60-124) *)

ListTargets == {"problems", "medications"}
required_keys == <<"standard_name", "standard_code_type", "standard_code_value">>

\* `k in details` raises TypeError when details is neither a container nor a str
InRaises(details) == ~IsDict(details) /\ details.py_type = "NoneType"

\* `k in details`: key membership on a dict, substring test on a str
KeyIn(k, details) ==
    IF IsDict(details) THEN k \in DOMAIN details
    ELSE IF IsStr(details) THEN StrContains(details.text, k)
    ELSE FALSE

\* all(k in details for k in required_keys)
HasRequiredKeys(details) ==
    \A i \in 1..Len(required_keys) : KeyIn(required_keys[i], details)

\* a replacement that does not stop at the first match
ReplaceAllByName(xs, details) ==
    [i \in 1..Len(xs) |->
        IF Get(xs[i], "standard_name", "") = details.standard_name THEN details ELSE xs[i]]

\* target_list[i] = details for the first i with item.get("standard_name") == name
RECURSIVE ReplaceFirstByName(_, _)
ReplaceFirstByName(xs, details) ==
    IF xs = <<>> THEN <<>>
    ELSE IF Get(Head(xs), "standard_name", "") = details.standard_name
         THEN <<details>> \o Tail(xs)
         ELSE <<Head(xs)>> \o ReplaceFirstByName(Tail(xs), details)

HasName(xs, name) == \E i \in 1..Len(xs) : Get(xs[i], "standard_name", "") = name

\* a removal that deletes one entry only
RECURSIVE RemoveFirstEqual(_, _)
RemoveFirstEqual(xs, details) ==
    IF xs = <<>> THEN <<>>
    ELSE IF Head(xs) = details THEN Tail(xs)
         ELSE <<Head(xs)>> \o RemoveFirstEqual(Tail(xs), details)

\* a removal that matches on standard_name alone
RemoveByName(xs, details) ==
    SelectSeq(xs, LAMBDA x : Get(x, "standard_name", "") # Get(details, "standard_name", ""))

\* [x for x in target_list if x != details]
RemoveEqual(xs, details) == SelectSeq(xs, LAMBDA x : x # details)

\* lines 69-72: a missing or non-list target is set to [] before anything else
InitTarget(record, target) ==
    IF target \notin DOMAIN record \/ ~IsList(record[target])
    THEN SetItem(record, target, ListVal(<<>>))
    ELSE record

Result(record, ns, exc) == [record |-> record, notices |-> ns, raised |-> exc]

\* lines 79-103, entered with a list target and details that passed validation
ApplyToList(rec, action, target, details) ==
    LET target_list == rec[target].items IN
    CASE action = "add" ->
            IF ~InList(details, target_list)
            THEN Result(SetItem(rec, target, ListVal(Append(target_list, details))),
                        <<"toast:added">>, "none")
            ELSE Result(rec, <<"toast:already_exists">>, "none")
      [] action = "remove" ->
            LET kept == RemoveEqual(target_list, details) IN
            IF Len(kept) < Len(target_list)
            THEN Result(SetItem(rec, target, ListVal(kept)), <<"toast:removed">>, "none")
            ELSE Result(SetItem(rec, target, ListVal(kept)),
                        <<"toast:not_found_for_removal">>, "none")
      [] action = "update" ->
            IF HasName(target_list, details.standard_name)
            THEN Result(SetItem(rec, target,
                                ListVal(ReplaceFirstByName(target_list, details))),
                        <<"toast:updated">>, "none")
            ELSE Result(rec, <<"toast:not_found_for_update">>, "none")
      [] OTHER -> Result(rec, <<>>, "none")

\* lines 106-119: new_summary is falsy ("" here) for None, "" and a missing key
UpdateSummary(record, details) ==
    LET new_summary ==
            IF IsDict(details)
            THEN IF Get(details, "quick_summary", "") # ""
                 THEN details.quick_summary
                 ELSE Get(details, "text", "")
            ELSE IF IsStr(details) THEN details.text
            ELSE ""
    IN  IF new_summary # ""
        THEN Result(SetItem(record, "quick_summary", new_summary),
                    <<"toast:summary_updated">>, "none")
        ELSE Result(record, <<"toast:invalid_summary_format">>, "none")

\* The record after the call (mutated in place, so also what the caller holds when
\* the call raises), the notices shown, and the exception raised, if any.
update_record_data(record, action, target, details) ==
    IF target \in ListTargets
    THEN LET rec == InitTarget(record, target) IN
         IF InRaises(details) THEN Result(rec, <<>>, "TypeError")
         ELSE IF ~HasRequiredKeys(details)
              THEN Result(rec, <<"error:invalid_details">>, "none")
              ELSE ApplyToList(rec, action, target, details)
    ELSE IF target = "quick_summary" /\ action = "update"
         THEN UpdateSummary(record, details)
         ELSE Result(record, <<"toast:unsupported">>, "none")

---------------------------------------------------------------------------
(* Patients, notes and records *)

MaxLen == 2    \* longest problems / medications list explored

PatientIds == {"P-1001", "P-1002"}

Note(record) ==
    [date_of_service |-> "2025-10-20", summary |-> "Initial summary", raw_data |-> record]
Patient(name, notes) == [name |-> name, date_added |-> "2025-10-01", notes |-> notes]

\* line 270 writing to the first note: patient_data["notes"][0]["raw_data"] = record
WithFirstRecord(patient_data, record) ==
    [patient_data EXCEPT !.notes[1].raw_data = record]

\* patient_data["notes"][-1]["raw_data"] = record
WithLatestRecord(patient_data, record) ==
    [patient_data EXCEPT !.notes[Len(patient_data.notes)].raw_data = record]

LatestRecord(patient_data) == patient_data.notes[Len(patient_data.notes)].raw_data

RECURSIVE SeqsUpTo(_, _)
SeqsUpTo(S, n) ==
    IF n = 0 THEN {<<>>}
    ELSE LET shorter == SeqsUpTo(S, n - 1) IN
         shorter \cup {Append(xs, x) : xs \in shorter, x \in S}

\* what record[target] can hold: a list of terms, None, or (Absent) no such key
Absent == [py_type |-> "absent"]
TargetValues == {ListVal(xs) : xs \in SeqsUpTo(Terms, MaxLen)} \cup {NoneVal, Absent}

\* 'patients' not in st.session_state; no entry in the cache of st.cache_data
NotLoaded == Absent
NotCached == Absent

Sessions == {"this", "peer"}
\* the files uploaded for a synthesis (the same scan each time)
Uploads == {"note_scan.png"}

MakeRecord(problems, medications) ==
    LET base == [patient_id |-> "P-1001", quick_summary |-> "Initial summary"]
        withP == IF problems = Absent THEN base ELSE SetItem(base, "problems", problems)
    IN  IF medications = Absent THEN withP ELSE SetItem(withP, "medications", medications)

\* the entries of record[target], <<>> when it is missing or not a list
ItemsOf(record, target) ==
    IF target \in DOMAIN record /\ IsList(record[target]) THEN record[target].items ELSE <<>>

\* the records explored: no list longer than MaxLen, one entry more than that in all
Explored(record) ==
    /\ \A t \in ListTargets : Len(ItemsOf(record, t)) <= MaxLen
    /\ Len(ItemsOf(record, "problems")) + Len(ItemsOf(record, "medications")) <= MaxLen + 1

Records == {r \in {MakeRecord(p, m) : p \in TargetValues, m \in TargetValues} : Explored(r)}

---------------------------------------------------------------------------
(* The Record Mutator on its own: update_record_data called on the record *)
(* of the latest note of P-1001 with every action, target and details.    *)

Actions == {"add", "remove", "update", "delete"}
Targets == {"problems", "medications", "quick_summary", "allergies"}

NoHistory == <<>>

\* what a generate_content call gives: a text, or an exception
Returned(text) == [raises |-> FALSE, text |-> text]
ModelRaises == [raises |-> TRUE, text |-> <<>>]
SummaryReturned(s) == [raises |-> FALSE, summary |-> s]
SummaryRaises == [raises |-> TRUE, summary |-> ""]

\* the arguments of patient_chat_interface, the chat input and what the external
\* calls of one run give
Call(patient_id, record_context, user_prompt, response, summary_response, save_failures) ==
    [patient_id |-> patient_id, record_context |-> record_context,
     user_prompt |-> user_prompt, response |-> response,
     summary_response |-> summary_response, save_failures |-> save_failures]
NoCall == Call("", "", <<>>, ModelRaises, SummaryRaises, 0)

MutatorInit ==
    /\ \E r \in Records : patients = [p \in {"P-1001"} |-> Patient("Jane Doe", <<Note(r)>>)]
    /\ store = [p \in {} |-> EmptyDict]
    /\ db = "None"
    /\ chat_history = [p \in PatientIds |-> NoHistory]
    /\ notices = <<>>
    /\ db_writes = 0
    /\ model_calls = 0
    /\ raised = "none"
    /\ call = NoCall
    /\ sleeps = <<>>
    /\ load_cache = NotCached
    /\ synthesis_cache = [uploaded_files \in Uploads |-> NotCached]
    /\ peer_patients = NotLoaded
    /\ pc = [s \in Sessions |-> IF s = "this" THEN "ready" ELSE "start"]

LiveRecord == LatestRecord(patients["P-1001"])

CallUpdateRecordData(action, target, details) ==
    LET res == update_record_data(LiveRecord, action, target, details) IN
    /\ Explored(res.record)
    /\ patients' = [patients EXCEPT !["P-1001"] = WithLatestRecord(@, res.record)]
    /\ notices' = res.notices
    /\ raised' = res.raised
    /\ UNCHANGED <<store, db, chat_history, db_writes, model_calls, call,
                   sleeps, load_cache, peer_patients, synthesis_cache, pc>>

MutatorNext ==
    \E action \in Actions, target \in Targets, details \in DetailsValues :
        CallUpdateRecordData(action, target, details)

MutatorSpec == MutatorInit /\ [][MutatorNext]_vars

---------------------------------------------------------------------------
(* Text.  A chat text is a sequence of tokens: white space, a run of plain  *)
(* characters, a brace, or the members of one JSON object (everything       *)
(* between its outer braces, nested values included), which in the texts    *)
(* modelled always stands right after a "{".  "" is the empty sequence; the *)
(* code treats None and "" alike wherever a text is read.                   *)

Sp == [tok |-> "space"]
Word(s) == [tok |-> "text", s |-> s]
LBrace == [tok |-> "{"]
RBrace == [tok |-> "}"]
Members(obj) == [tok |-> "members", obj |-> obj]

\* str.strip()
RECURSIVE LStrip(_)
LStrip(text) ==
    IF text # <<>> /\ Head(text) = Sp THEN LStrip(Tail(text)) ELSE text
RECURSIVE RStrip(_)
RStrip(text) ==
    IF text # <<>> /\ text[Len(text)] = Sp
    THEN RStrip(SubSeq(text, 1, Len(text) - 1))
    ELSE text
Strip(text) == RStrip(LStrip(text))

\* str.lower() on the action strings that occur
Lower(s) ==
    CASE s = "ADD" -> "add"
      [] s = "Remove" -> "remove"
      [] OTHER -> s

\* str.strip() on the summary strings that occur
StripStr(s) ==
    CASE s = "  " -> ""
      [] s = " Takes lisinopril for hypertension. " -> "Takes lisinopril for hypertension."
      [] OTHER -> s

\* `"{" in text`, `"}" in text`
BraceIn(brace, text) == \E i \in 1..Len(text) : text[i] = brace

\* `'add' in text`: the keyword occurs in a run of plain characters or in a JSON
\* string; of the JSON strings modelled only an action value contains one
KeywordInToken(kw, t) ==
    \/ t.tok = "text" /\ StrContains(t.s, kw)
    \/ t.tok = "members" /\ "action" \in DOMAIN t.obj /\ StrContains(t.obj.action, kw)
KeywordIn(kw, text) == \E i \in 1..Len(text) : KeywordInToken(kw, text[i])

\* text.find("{") and text.rfind("}"), as positions from 1, 0 when there is none
Find(brace, text) ==
    IF BraceIn(brace, text)
    THEN CHOOSE i \in 1..Len(text) :
            text[i] = brace /\ \A j \in 1..(i - 1) : text[j] # brace
    ELSE 0
RFind(brace, text) ==
    IF BraceIn(brace, text)
    THEN CHOOSE i \in 1..Len(text) :
            text[i] = brace /\ \A j \in (i + 1)..Len(text) : text[j] # brace
    ELSE 0

\* text[text.find("{") : text.rfind("}") + 1]
Candidate(text) ==
    LET start_index == Find(LBrace, text)
        last == RFind(RBrace, text)
    IN  IF start_index <= last THEN SubSeq(text, start_index, last) ELSE <<>>

\* json.loads(candidate): the dict, or JSONDecodeError unless candidate is exactly
\* one object
json_loads(candidate) ==
    LET inner == IF Len(candidate) >= 2
                 THEN SelectSeq(SubSeq(candidate, 2, Len(candidate) - 1),
                                LAMBDA t : t # Sp)
                 ELSE <<>>
        braced == /\ Len(candidate) >= 2
                  /\ candidate[1] = LBrace
                  /\ candidate[Len(candidate)] = RBrace
    IN  IF braced /\ inner = <<>> THEN [ok |-> TRUE, value |-> EmptyDict]
        ELSE IF braced /\ Len(inner) = 1 /\ inner[1].tok = "members"
             THEN [ok |-> TRUE, value |-> inner[1].obj]
             ELSE [ok |-> FALSE, value |-> EmptyDict]

---------------------------------------------------------------------------
(* The Record Store Adapter: save_patient_data (src/app.py:149-168) and     *)
(* load_patients_from_firestore (src/app.py:125-147)                       *)

max_retries == 5

\* lines 142 and 163 with a delay that grows by one second per attempt
wait_time_linear(attempt) == attempt + 1

\* lines 142 and 163: wait_time = 2 ** attempt
wait_time(attempt) == 2 ^ attempt

\* The loop `for attempt in range(max_retries)` of lines 132-147 and 156-168, from
\* `attempt` on.  `failures` is the number of calls to the store that raise before one
\* succeeds; `slept` holds the delays slept so far.  done: the call of this attempt
\* returned; attempts: calls made to the store.
RECURSIVE RetryLoop(_, _, _)
RetryLoop(attempt, failures, slept) ==
    IF attempt >= max_retries
    THEN [done |-> FALSE, attempts |-> attempt, sleeps |-> slept, reported |-> FALSE]
    ELSE IF attempt >= failures
         THEN [done |-> TRUE, attempts |-> attempt + 1, sleeps |-> slept, reported |-> FALSE]
         ELSE IF attempt < max_retries - 1
              THEN RetryLoop(attempt + 1, failures, Append(slept, wait_time(attempt)))
              ELSE [done |-> FALSE, attempts |-> attempt + 1, sleeps |-> slept,
                    reported |-> TRUE]

\* `failures` is the number of set() calls that raise before one succeeds.
save_patient_data(current_store, patient_id, patient_data, failures) ==
    IF db = "None"
    THEN [ok |-> FALSE, store |-> current_store, db_writes |-> 0, sleeps |-> <<>>,
          notices |-> <<"error:firestore_not_initialized">>]
    ELSE LET loop == RetryLoop(0, failures, <<>>) IN
         IF loop.done
         THEN [ok |-> TRUE,
               store |-> [k \in DOMAIN current_store \cup {patient_id} |->
                            IF k = patient_id THEN patient_data ELSE current_store[k]],
               db_writes |-> loop.attempts, sleeps |-> loop.sleeps, notices |-> <<>>]
         ELSE [ok |-> FALSE, store |-> current_store, db_writes |-> loop.attempts,
               sleeps |-> loop.sleeps,
               notices |-> IF loop.reported THEN <<"error:save_failed_after_retries">>
                           ELSE <<>>]

\* load_patients_from_firestore (src/app.py:125-147) behind st.cache_data: the first
\* call runs the function and its return value is kept; later calls, of any session of
\* the process, get the kept value.  `failures` is the number of stream() calls that
\* raise before one succeeds.
load_patients_from_firestore(cache, current_store, failures) ==
    IF cache # NotCached
    THEN [patients |-> cache, cache |-> cache, sleeps |-> <<>>, notices |-> <<>>]
    ELSE IF db = "None"
         THEN [patients |-> EmptyDict, cache |-> EmptyDict, sleeps |-> <<>>,
               notices |-> <<>>]
         ELSE LET loop == RetryLoop(0, failures, <<>>) IN
              IF loop.done
              THEN [patients |-> current_store, cache |-> current_store,
                    sleeps |-> loop.sleeps, notices |-> <<>>]
              ELSE [patients |-> EmptyDict, cache |-> EmptyDict, sleeps |-> loop.sleeps,
                    notices |-> IF loop.reported THEN <<"error:load_failed_after_retries">>
                                ELSE <<>>]

---------------------------------------------------------------------------
(* regenerate_quick_summary (src/patient_chatbot.py:35-57) *)

\* lines 49-56 without the `if summary:` test and with the exception read as no text
regenerate_quick_summary_unguarded(record, summary_response) ==
    [record |-> SetItem(record, "quick_summary",
                        IF summary_response.raises THEN ""
                        ELSE StripStr(summary_response.summary)),
     notices |-> <<"toast:summary_regenerated">>]

regenerate_quick_summary(record, summary_response) ==
    IF summary_response.raises
    THEN [record |-> record, notices |-> <<"toast:summary_failed">>]
    ELSE LET summary == StripStr(summary_response.summary) IN
         IF summary # ""
         THEN [record |-> SetItem(record, "quick_summary", summary),
               notices |-> <<"toast:summary_regenerated">>]
         ELSE [record |-> record, notices |-> <<"toast:summary_empty">>]

---------------------------------------------------------------------------
(* patient_chat_interface (src/patient_chatbot.py:142-296) *)

Entry(role, text) == [role |-> role, text |-> text]
Greeting == Entry("assistant", <<Word("Hello! I am your assistant.")>>)
ModelErrorText == <<Word("Model error")>>
NoResponseText == <<Word("_No response received._")>>

\* line 235 with the text kept raw
AssistantTextRaw(response_text) == response_text

\* line 235: (response.text or "").strip() or "_No response received._"
AssistantText(response_text) ==
    IF Strip(response_text) # <<>> THEN Strip(response_text) ELSE NoResponseText

\* line 239
LooksLikeDirective(text) ==
    /\ BraceIn(LBrace, text)
    /\ BraceIn(RBrace, text)
    /\ (KeywordIn("add", text) \/ KeywordIn("remove", text))

\* line 252 with update let through as well
DirectiveAcceptedWithUpdate(act, tgt) ==
    act \in {"add", "remove", "update"} /\ tgt \in {"problems", "medications"}

\* line 252
DirectiveAccepted(act, tgt) ==
    act \in {"add", "remove"} /\ tgt \in {"problems", "medications"}

\* line 256: not patient_data or not patient_data.get("notes")
HasNoRecord(patient_id) ==
    patient_id \notin DOMAIN patients \/ patients[patient_id].notes = <<>>

Outcome(new_patients, new_store, ns, writes, calls, slept) ==
    [patients |-> new_patients, store |-> new_store, notices |-> ns,
     db_writes |-> writes, model_calls |-> calls, sleeps |-> slept]

\* lines 276-279 with the in-memory record put back when the save fails
AfterSaveRollback(patient_id, patient_data, saved) ==
    IF saved.ok THEN [patients EXCEPT ![patient_id] = patient_data] ELSE patients

\* lines 270-279: the record is in the session whatever the save returns
AfterSave(patient_id, patient_data, saved) ==
    [patients EXCEPT ![patient_id] = patient_data]

\* lines 259-283.  update_record_data works on the dict held by the latest note, so
\* what it did before raising stays in the session; the exception is caught at
\* line 286.
ApplyDirective(patient_id, act, tgt, det, summary_response, save_failures) ==
    LET patient_data == patients[patient_id]
        upd == update_record_data(LatestRecord(patient_data), act, tgt, det)
    IN  IF upd.raised # "none"
        THEN Outcome([patients EXCEPT ![patient_id] = WithLatestRecord(@, upd.record)],
                     store, upd.notices \o <<"toast:invalid_json">>, 0, 0, <<>>)
        ELSE LET regen == regenerate_quick_summary(upd.record, summary_response)
                 new_data == WithLatestRecord(patient_data, regen.record)
                 saved == save_patient_data(store, patient_id, new_data, save_failures)
             IN  Outcome(AfterSave(patient_id, new_data, saved), saved.store,
                         upd.notices \o regen.notices \o saved.notices
                            \o <<IF saved.ok THEN "toast:record_updated"
                                 ELSE "warning:local_update_save_failed">>,
                         saved.db_writes, 1, saved.sleeps)

\* lines 239-287, after the assistant entry was appended
HandleReplyText(patient_id, text, summary_response, save_failures) ==
    LET untouched == Outcome(patients, store, <<>>, 0, 0, <<>>) IN
    IF ~LooksLikeDirective(text) THEN untouched
    ELSE LET parsed == json_loads(Candidate(text)) IN
         IF ~parsed.ok THEN Outcome(patients, store, <<"toast:invalid_json">>, 0, 0, <<>>)
         ELSE LET mod == parsed.value
                  act == Lower(Get(mod, "action", ""))
                  tgt == Get(mod, "target", "")
                  det == Get(mod, "details", EmptyDict)
              IN  IF ~DirectiveAccepted(act, tgt) THEN untouched
                  ELSE IF HasNoRecord(patient_id)
                       THEN Outcome(patients, store, <<"error:no_record">>, 0, 0, <<>>)
                       ELSE ApplyDirective(patient_id, act, tgt, det,
                                           summary_response, save_failures)

\* line 161-168
HistoryAtRender(patient_id) ==
    IF chat_history[patient_id] = NoHistory THEN <<Greeting>> ELSE chat_history[patient_id]

\* line 155 raises: nothing of the function has run
ContextNotJson(c) ==
    /\ c.record_context # "json"
    /\ raised' = "JSONDecodeError"
    /\ notices' = <<>>
    /\ db_writes' = 0
    /\ model_calls' = 0
    /\ sleeps' = <<>>
    /\ UNCHANGED <<patients, store, db, chat_history, load_cache, peer_patients,
                   synthesis_cache, pc>>

\* line 206 is false: the page is rendered and nothing else happens
NothingSubmitted(c) ==
    /\ c.record_context = "json"
    /\ c.user_prompt = <<>>
    /\ chat_history' = [chat_history EXCEPT ![c.patient_id] = HistoryAtRender(c.patient_id)]
    /\ raised' = "none"
    /\ notices' = <<>>
    /\ db_writes' = 0
    /\ model_calls' = 0
    /\ sleeps' = <<>>
    /\ UNCHANGED <<patients, store, db, load_cache, peer_patients, synthesis_cache, pc>>

\* lines 292-296: the model call raised
ModelCallFails(c) ==
    /\ c.record_context = "json"
    /\ c.user_prompt # <<>>
    /\ c.response.raises
    /\ chat_history' = [chat_history EXCEPT ![c.patient_id] =
            HistoryAtRender(c.patient_id)
                \o <<Entry("user", Strip(c.user_prompt)), Entry("assistant", ModelErrorText)>>]
    /\ raised' = "none"
    /\ notices' = <<"error:model_error">>
    /\ db_writes' = 0
    /\ model_calls' = 1
    /\ sleeps' = <<>>
    /\ UNCHANGED <<patients, store, db, load_cache, peer_patients, synthesis_cache, pc>>

\* lines 231-290: the model call returned
ModelReplies(c) ==
    /\ c.record_context = "json"
    /\ c.user_prompt # <<>>
    /\ ~c.response.raises
    /\ LET text == AssistantText(c.response.text)
           out == HandleReplyText(c.patient_id, text, c.summary_response, c.save_failures)
       IN  /\ chat_history' = [chat_history EXCEPT ![c.patient_id] =
                    HistoryAtRender(c.patient_id)
                        \o <<Entry("user", Strip(c.user_prompt)), Entry("assistant", text)>>]
           /\ patients' = out.patients
           /\ store' = out.store
           /\ notices' = out.notices
           /\ db_writes' = out.db_writes
           /\ model_calls' = 1 + out.model_calls
           /\ sleeps' = out.sleeps
    /\ raised' = "none"
    /\ UNCHANGED <<db, load_cache, peer_patients, synthesis_cache, pc>>

---------------------------------------------------------------------------
(* A session: the chat handler run for either patient, with every chat     *)
(* input, model reply, summary reply and number of failing store writes.   *)

MaxTurns == 2    \* accepted chat submissions explored in one session

AddLisinopril == [action |-> "add", target |-> "medications", details |-> Lisinopril]
RemoveLisinopril == [action |-> "remove", target |-> "medications", details |-> Lisinopril]
AddUpperCase == [action |-> "ADD", target |-> "problems", details |-> LisinoprilAlt]
UpdateLisinopril == [action |-> "update", target |-> "medications", details |-> LisinoprilAlt]
AddAllergy == [action |-> "add", target |-> "allergies", details |-> Lisinopril]
AddMalformed == [action |-> "add", target |-> "medications", details |-> NoCodeValue]
RemoveNull == [action |-> "remove", target |-> "problems", details |-> NoneVal]
Directives ==
    {AddLisinopril, RemoveLisinopril, AddUpperCase, UpdateLisinopril, AddAllergy,
     AddMalformed, RemoveNull}

\* a reply that announces a change and carries one JSON object
WithDirective(d) == <<Word("I will add it."), Sp, LBrace, Members(d), RBrace, Sp>>
PlainReply == <<Sp, Word("Noted."), Sp>>
BlankReply == <<Sp>>
BareUpdateReply == <<LBrace, Members(UpdateLisinopril), RBrace>>
TwoObjectsReply ==
    <<LBrace, Members(AddLisinopril), RBrace, Sp, LBrace, Members(RemoveLisinopril), RBrace>>
ReversedBracesReply == <<RBrace, Word("add"), LBrace>>
Replies ==
    {WithDirective(d) : d \in Directives}
        \cup {PlainReply, BlankReply, BareUpdateReply, TwoObjectsReply, ReversedBracesReply}

Responses == {ModelRaises} \cup {Returned(t) : t \in Replies}
SummaryResponses ==
    {SummaryRaises, SummaryReturned("  "),
     SummaryReturned(" Takes lisinopril for hypertension. ")}
SaveFailures == {0, max_retries}
UserPrompts == {<<>>, <<Sp>>, <<Sp, Word("Please add lisinopril."), Sp>>}
Contexts == {"json", "No synthesized data available yet. Please upload notes first."}

OlderRecord == MakeRecord(ListVal(<<>>), ListVal(<<LisinoprilAlt>>))
ChatRecords ==
    {MakeRecord(ListVal(<<Hypertension>>), ListVal(<<>>)),
     MakeRecord(Absent, ListVal(<<Lisinopril, Lisinopril>>))}

\* the session of a connected app after initialize_state: the patients are the
\* documents of the store; P-1002 has no note yet
Init ==
    /\ \E r \in ChatRecords :
          patients = [p \in PatientIds |->
                        IF p = "P-1001"
                        THEN Patient("Jane Doe", <<Note(OlderRecord), Note(r)>>)
                        ELSE Patient("John Smith", <<>>)]
    /\ store = patients
    /\ db = "Ready"
    /\ chat_history = [p \in PatientIds |-> NoHistory]
    /\ notices = <<>>
    /\ db_writes = 0
    /\ model_calls = 0
    /\ raised = "none"
    /\ call = NoCall
    /\ sleeps = <<>>
    /\ load_cache = NotCached
    /\ synthesis_cache = [uploaded_files \in Uploads |-> NotCached]
    /\ peer_patients = NotLoaded
    /\ pc = [s \in Sessions |-> IF s = "this" THEN "ready" ELSE "start"]

\* user entries in all transcripts
RECURSIVE UserEntries(_)
UserEntries(ids) ==
    IF ids = {} THEN 0
    ELSE LET p == CHOOSE q \in ids : TRUE IN
         Len(SelectSeq(chat_history[p], LAMBDA e : e.role = "user"))
            + UserEntries(ids \ {p})

\* the run reaches regenerate_quick_summary and save_patient_data: the reply holds an
\* accepted directive, the patient has a note, and update_record_data returns
ReachesSave(patient_id, response) ==
    LET text == AssistantText(response.text)
        parsed == json_loads(Candidate(text))
        mod == parsed.value
    IN  /\ ~response.raises
        /\ LooksLikeDirective(text)
        /\ parsed.ok
        /\ DirectiveAccepted(Lower(Get(mod, "action", "")), Get(mod, "target", ""))
        /\ ~HasNoRecord(patient_id)
        /\ update_record_data(LatestRecord(patients[patient_id]),
                              Lower(Get(mod, "action", "")), Get(mod, "target", ""),
                              Get(mod, "details", EmptyDict)).raised = "none"

\* room for one more accepted submission
MoreTurns == UserEntries(PatientIds) < MaxTurns

\* the function is called with a context that is not JSON (what app.py passes for a
\* patient without notes)
RenderWithoutRecord ==
    \E patient_id \in PatientIds, record_context \in Contexts :
        /\ record_context # "json"
        /\ call' = Call(patient_id, record_context, <<>>, ModelRaises, SummaryRaises, 0)
        /\ ContextNotJson(call')

\* the page is rendered with nothing in the chat input
RenderOnly ==
    \E patient_id \in PatientIds :
        /\ call' = Call(patient_id, "json", <<>>, ModelRaises, SummaryRaises, 0)
        /\ NothingSubmitted(call')

\* a chat message is submitted and the model call raises
SubmitModelFails ==
    /\ MoreTurns
    /\ \E patient_id \in PatientIds, user_prompt \in UserPrompts \ {<<>>} :
        /\ call' = Call(patient_id, "json", user_prompt, ModelRaises, SummaryRaises, 0)
        /\ ModelCallFails(call')

\* a chat message is submitted and the model replies; the summary reply and the
\* store's failures are drawn only when the run gets to them
SubmitModelReplies ==
    /\ MoreTurns
    /\ \E patient_id \in PatientIds, user_prompt \in UserPrompts \ {<<>>},
          response \in Responses \ {ModelRaises} :
        \E summary_response \in IF ReachesSave(patient_id, response)
                                THEN SummaryResponses ELSE {SummaryRaises},
           save_failures \in IF ReachesSave(patient_id, response)
                             THEN SaveFailures ELSE {0} :
            /\ call' = Call(patient_id, "json", user_prompt, response,
                            summary_response, save_failures)
            /\ ModelReplies(call')

Next ==
    \/ RenderWithoutRecord
    \/ RenderOnly
    \/ SubmitModelFails
    \/ SubmitModelReplies

Spec == Init /\ [][Next]_vars

---------------------------------------------------------------------------
(* The application: two sessions of one server process on one store.  The  *)
(* scripts of the sessions run in threads of their own, so a step is what   *)
(* one script run does around one access to the store: a run that reads or  *)
(* writes the store once, retries and waits included, is one step (what it  *)
(* does before and after touches its own session only); initialize_state,   *)
(* which loads and then saves two documents, is three steps, between which  *)
(* the other session can act.                                               *)

MaxPatients == 3    \* most patients a session or the store holds
MaxNotes == 1       \* most notes of a patient

SessionPatients(s) == IF s = "this" THEN patients ELSE peer_patients
SetSessionPatients(s, value) ==
    IF s = "this" THEN patients' = value /\ UNCHANGED peer_patients
    ELSE peer_patients' = value /\ UNCHANGED patients

\* datetime.date.today().strftime("%Y-%m-%d")
today == "2025-10-20"

demo_patient_1 == [name |-> "Jane Doe", date_added |-> "2025-10-01", notes |-> <<>>]
demo_patient_2 == [name |-> "John Smith", date_added |-> "2025-10-15", notes |-> <<>>]

\* d[key] = value on a dict of patients
SetPatient(d, key, value) ==
    [k \in DOMAIN d \cup {key} |-> IF k = key THEN value ELSE d[k]]

\* line 218: f"P-{len(st.session_state.patients) + 1001}"
new_id(session_patients) == "P-" \o ToString(Cardinality(DOMAIN session_patients) + 1001)

\* lines 299-303
new_note(data) ==
    [date_of_service |-> Get(data, "date_of_service", today),
     summary |-> Get(data, "quick_summary", "N/A"),
     raw_data |-> data]

\* What lines 295-296 give.  translate_clinical_note_multi raises before the model is
\* called (Image.open on a file that is no image, line 102) or in the call; or it returns
\* a text, which json.loads and data.get take (the JSON of the object `data`) or not.
\* called: generate_content was called.
SynthesisUnreadable == [raises |-> TRUE, called |-> FALSE, json |-> FALSE, data |-> EmptyDict]
SynthesisRaises == [raises |-> TRUE, called |-> TRUE, json |-> FALSE, data |-> EmptyDict]
SynthesisNotJson == [raises |-> FALSE, called |-> TRUE, json |-> FALSE, data |-> EmptyDict]
SynthesisReturned(data) == [raises |-> FALSE, called |-> TRUE, json |-> TRUE, data |-> data]

\* what a step was given
AppCall(op, session, patient_id, new_name, synthesis, load_failures, save_failures, chat) ==
    [op |-> op, session |-> session, patient_id |-> patient_id, new_name |-> new_name,
     synthesis |-> synthesis, load_failures |-> load_failures,
     save_failures |-> save_failures, chat |-> chat]
NoAppCall == AppCall("none", "this", "", "", SynthesisRaises, 0, <<0>>, NoCall)

\* initialize_state (src/app.py:173-192), first run of session s: the load, and the demo
\* patients put into the session when nothing was loaded and the client is there
initialize_state(s, load_failures) ==
    /\ pc[s] = "start"
    /\ LET loaded == load_patients_from_firestore(load_cache, store, load_failures)
           seeds == DOMAIN loaded.patients = {} /\ db = "Ready"
       IN  /\ load_cache' = loaded.cache
           /\ SetSessionPatients(s,
                IF seeds
                THEN SetPatient(SetPatient(loaded.patients, "P-1001", demo_patient_1),
                                "P-1002", demo_patient_2)
                ELSE loaded.patients)
           /\ pc' = [pc EXCEPT ![s] = IF seeds THEN "save_demo_1" ELSE "ready"]
           /\ notices' = loaded.notices
           /\ sleeps' = loaded.sleeps
    /\ db_writes' = 0
    /\ raised' = "none"
    /\ model_calls' = 0
    /\ UNCHANGED <<store, db, chat_history, synthesis_cache>>

\* lines 193 and 194 of initialize_state: save_patient_data of one demo patient
save_demo_patient(s, save_failures) ==
    /\ pc[s] \in {"save_demo_1", "save_demo_2"}
    /\ LET first == pc[s] = "save_demo_1"
           saved == save_patient_data(store, IF first THEN "P-1001" ELSE "P-1002",
                                      IF first THEN demo_patient_1 ELSE demo_patient_2,
                                      save_failures)
       IN  /\ store' = saved.store
           /\ notices' = saved.notices
           /\ db_writes' = saved.db_writes
           /\ sleeps' = saved.sleeps
           /\ pc' = [pc EXCEPT ![s] = IF first THEN "save_demo_2" ELSE "ready"]
    /\ raised' = "none"
    /\ model_calls' = 0
    /\ UNCHANGED <<patients, peer_patients, db, chat_history, load_cache, synthesis_cache>>

\* the add-patient form of patient_dashboard (src/app.py:217-230), submitted
add_patient(s, new_name, save_failures) ==
    /\ pc[s] = "ready"
    /\ IF new_name = ""
       THEN /\ notices' = <<>>
            /\ db_writes' = 0
            /\ sleeps' = <<>>
            /\ UNCHANGED <<patients, peer_patients, store>>
       ELSE LET id == new_id(SessionPatients(s))
                new_patient_data == [name |-> new_name, date_added |-> today, notes |-> <<>>]
                saved == save_patient_data(store, id, new_patient_data, save_failures)
            IN  /\ store' = saved.store
                /\ db_writes' = saved.db_writes
                /\ sleeps' = saved.sleeps
                /\ IF saved.ok
                   THEN /\ SetSessionPatients(s, SetPatient(SessionPatients(s), id,
                                                            new_patient_data))
                        /\ notices' = saved.notices \o <<"success:patient_added">>
                   ELSE /\ UNCHANGED <<patients, peer_patients>>
                        /\ notices' = saved.notices \o <<"error:could_not_save_patient">>
    /\ raised' = "none"
    /\ model_calls' = 0
    /\ UNCHANGED <<db, chat_history, load_cache, synthesis_cache, pc>>

\* translate_clinical_note_multi (src/app.py:95-120) behind st.cache_data.  `outcome` is
\* what the body gives when it runs.  The text returned for the uploaded files is kept;
\* a later call with the same files gets the kept text and the body does not run (no
\* file is read, the model is not called).  An exception is not kept.
translate_clinical_note_multi(cache, uploaded_files, outcome) ==
    IF cache[uploaded_files] # NotCached
    THEN [result |-> [cache[uploaded_files] EXCEPT !.called = FALSE], cache |-> cache]
    ELSE [result |-> outcome,
          cache |-> IF outcome.raises THEN cache
                    ELSE [cache EXCEPT ![uploaded_files] = outcome]]

\* lines 349 and 361: data['problems'], data['medications'] of the latest record
MissingTable(record) == ~({"problems", "medications"} \subseteq DOMAIN record)

\* Lines 320-383 of clinical_translator with nothing submitted in the chat: the record
\* of the latest note is shown and the chat rendered.  For a patient without notes
\* patient_chat_interface gets the text of line 333 and json.loads raises (line 155 of
\* patient_chatbot.py); a latest record without problems or medications raises KeyError
\* at line 349 or 361, before the chat.
render_record_and_chat(patient_id) ==
    IF patients[patient_id].notes = <<>>
    THEN raised' = "JSONDecodeError" /\ UNCHANGED chat_history
    ELSE IF MissingTable(LatestRecord(patients[patient_id]))
         THEN raised' = "KeyError" /\ UNCHANGED chat_history
         ELSE /\ raised' = "none"
              /\ chat_history' = [chat_history EXCEPT ![patient_id] =
                                      HistoryAtRender(patient_id)]

\* The run of clinical_translator (src/app.py:254-383) in which the synthesis button is
\* pressed with files uploaded, in this session.  When the synthesis succeeds the run ends
\* at st.rerun() (line 314).  When it fails the run reports it (lines 316-318) and goes on
\* to render the record and the chat.
synthesize(patient_id, uploaded_files, outcome, save_failures) ==
    LET translated == translate_clinical_note_multi(synthesis_cache, uploaded_files, outcome)
        synthesis == translated.result
    IN
    /\ pc["this"] = "ready"
    /\ patient_id \in DOMAIN patients
    /\ synthesis_cache' = translated.cache
    /\ model_calls' = IF synthesis.called THEN 1 ELSE 0
    /\ IF synthesis.raises \/ ~synthesis.json
       THEN /\ notices' = <<"error:synthesis_failed", "warning:check_input_files">>
            /\ db_writes' = 0
            /\ sleeps' = <<>>
            /\ UNCHANGED <<patients, store>>
            /\ render_record_and_chat(patient_id)
       ELSE LET patient_data ==
                    [patients[patient_id] EXCEPT
                        !.notes = Append(@, new_note(synthesis.data))]
                saved == save_patient_data(store, patient_id, patient_data, save_failures)
            IN  /\ patients' = SetPatient(patients, patient_id, patient_data)
                /\ store' = saved.store
                /\ db_writes' = saved.db_writes
                /\ sleeps' = saved.sleeps
                /\ notices' = saved.notices
                                \o <<IF saved.ok THEN "success:record_saved"
                                     ELSE "warning:synthesized_not_saved">>
                /\ raised' = "none"
                /\ UNCHANGED chat_history
    /\ UNCHANGED <<db, load_cache, peer_patients, pc>>

\* The run of clinical_translator with nothing pressed and nothing submitted (the run
\* st.rerun() starts, or the page opened from the dashboard), in this session.
render_details(patient_id) ==
    /\ pc["this"] = "ready"
    /\ patient_id \in DOMAIN patients
    /\ render_record_and_chat(patient_id)
    /\ notices' = <<>>
    /\ db_writes' = 0
    /\ model_calls' = 0
    /\ sleeps' = <<>>
    /\ UNCHANGED <<patients, store, db, load_cache, peer_patients, synthesis_cache, pc>>

StoredJane == Patient("Jane Doe", <<Note(MakeRecord(ListVal(<<Hypertension>>), ListVal(<<>>)))>>)
StoredJohn == demo_patient_2

\* the documents the store holds when the server starts: none; the two demo patients,
\* one with a note; only P-1002 (P-1001 was deleted in the console)
StoredAtStart ==
    {[p \in {} |-> EmptyDict],
     [p \in {"P-1001", "P-1002"} |-> IF p = "P-1001" THEN StoredJane ELSE StoredJohn],
     [p \in {"P-1002"} |-> StoredJohn]}

\* the ids new_id can give
AppPatientIds == {"P-" \o ToString(1000 + i) : i \in 1..MaxPatients}

\* what is typed into the form: nothing, or a name (each session adds its own patient)
NewNames(s) == IF s = "this" THEN {"", "Ann Lee"} ELSE {"Bob Ray"}
Syntheses ==
    {SynthesisUnreadable, SynthesisRaises, SynthesisNotJson,
     SynthesisReturned(MakeRecord(ListVal(<<>>), ListVal(<<Lisinopril>>))),
     SynthesisReturned(MakeRecord(Absent, ListVal(<<Lisinopril>>)))}

AllFailures == 0..max_retries
ChatReplies == {PlainReply, WithDirective(AddLisinopril)}

AppInit ==
    /\ patients = NotLoaded
    /\ peer_patients = NotLoaded
    /\ load_cache = NotCached
    /\ synthesis_cache = [uploaded_files \in Uploads |-> NotCached]
    /\ pc = [s \in Sessions |-> "start"]
    /\ store \in StoredAtStart
    /\ db \in {"Ready", "None"}
    /\ chat_history = [p \in AppPatientIds |-> NoHistory]
    /\ notices = <<>>
    /\ db_writes = 0
    /\ model_calls = 0
    /\ sleeps = <<>>
    /\ raised = "none"
    /\ call = NoAppCall

\* the first script run of a session, up to the first save
InitializeState ==
    \E s \in Sessions, load_failures \in AllFailures :
        /\ load_cache # NotCached => load_failures = 0
        /\ call' = AppCall("initialize_state", s, "", "", SynthesisRaises, load_failures,
                           <<0>>, NoCall)
        /\ initialize_state(s, load_failures)

\* the first script run of a session saves the next demo patient
SaveDemoPatient ==
    \E s \in Sessions, save_failures \in SaveFailures :
        /\ call' = AppCall("save_demo_patient", s,
                           IF pc[s] = "save_demo_1" THEN "P-1001" ELSE "P-1002", "",
                           SynthesisRaises, 0, <<save_failures>>, NoCall)
        /\ save_demo_patient(s, save_failures)

\* the add-patient form is submitted
AddPatient ==
    \E s \in Sessions, save_failures \in AllFailures :
      \E new_name \in NewNames(s) :
        /\ pc[s] = "ready"
        /\ Cardinality(DOMAIN SessionPatients(s)) < MaxPatients
        /\ new_name = "" => save_failures = 0
        /\ call' = AppCall("add_patient", s, "", new_name, SynthesisRaises, 0,
                           <<save_failures>>, NoCall)
        /\ add_patient(s, new_name, save_failures)

\* the synthesis button is pressed on the page of a patient; call' holds what lines
\* 295-296 gave
Synthesize ==
    \E uploaded_files \in Uploads, outcome \in Syntheses, save_failures \in SaveFailures :
        LET synthesis == translate_clinical_note_multi(synthesis_cache, uploaded_files,
                                                       outcome).result
        IN  /\ pc["this"] = "ready"
            /\ synthesis_cache[uploaded_files] # NotCached => outcome = SynthesisUnreadable
            /\ \E patient_id \in DOMAIN patients :
                /\ Len(patients[patient_id].notes) < MaxNotes
                /\ (synthesis.raises \/ ~synthesis.json) => save_failures = 0
                /\ call' = AppCall("synthesize", "this", patient_id, "", synthesis, 0,
                                   <<save_failures>>, NoCall)
                /\ synthesize(patient_id, uploaded_files, outcome, save_failures)

\* the page of a patient is rendered
RenderDetails ==
    /\ pc["this"] = "ready"
    /\ \E patient_id \in DOMAIN patients :
        /\ call' = AppCall("render_details", "this", patient_id, "", SynthesisRaises, 0,
                           <<0>>, NoCall)
        /\ render_details(patient_id)

\* a chat message is submitted on the page of a patient whose latest record is shown
\* (lines 336-383) and the model replies
ChatTurn ==
    /\ pc["this"] = "ready"
    /\ MoreTurns
    /\ \E patient_id \in PatientIds \cap DOMAIN patients, text \in ChatReplies,
          summary_response \in {SummaryRaises}, save_failures \in SaveFailures :
        LET c == Call(patient_id, "json", <<Word("Please add lisinopril.")>>,
                      Returned(text), summary_response, save_failures)
        IN  /\ patients[patient_id].notes # <<>>
            /\ ~MissingTable(LatestRecord(patients[patient_id]))
            /\ ~ReachesSave(patient_id, Returned(text)) => save_failures = 0
            /\ call' = AppCall("chat", "this", patient_id, "", SynthesisRaises, 0,
                               <<save_failures>>, c)
            /\ ModelReplies(c)

AppNext ==
    \/ InitializeState
    \/ SaveDemoPatient
    \/ AddPatient
    \/ Synthesize
    \/ RenderDetails
    \/ ChatTurn

AppSpec == AppInit /\ [][AppNext]_vars

\* the runs that only load and save patients: the callers of the store adapter in app.py
\* outside the page of one patient
StoreNext ==
    \/ InitializeState
    \/ SaveDemoPatient
    \/ AddPatient

StoreSpec == AppInit /\ [][StoreNext]_vars

---------------------------------------------------------------------------
(* Claims about update_record_data, stated on every record MutatorSpec     *)
(* reaches.                                                                *)

AddThenAdd(T, D) ==
    update_record_data(update_record_data(LiveRecord, "add", T, D).record, "add", T, D)
RemoveThenRemove(T, D) ==
    update_record_data(update_record_data(LiveRecord, "remove", T, D).record, "remove", T, D)

\* C1: a second add of the same valid details leaves the list as the first add left
\* it (and reports a duplicate); a second remove leaves the record as the first remove
\* left it and reports not-found.
C1_RepeatedAddRemoveIdempotent ==
    \A T \in ListTargets, D \in Terms :
        LET add1 == update_record_data(LiveRecord, "add", T, D)
            rem1 == update_record_data(LiveRecord, "remove", T, D)
        IN  /\ AddThenAdd(T, D).record[T] = add1.record[T]
            /\ AddThenAdd(T, D).record = add1.record
            /\ AddThenAdd(T, D).notices = <<"toast:already_exists">>
            /\ RemoveThenRemove(T, D).record = rem1.record
            /\ RemoveThenRemove(T, D).notices = <<"toast:not_found_for_removal">>
            /\ RemoveThenRemove(T, D).raised = "none"

\* C1 witness: an add was answered "already exists" with the details in the list once
C1_DuplicateAddSuppressed ==
    /\ notices = <<"toast:already_exists">>
    /\ \E T \in ListTargets :
          Len(SelectSeq(ItemsOf(LiveRecord, T), LAMBDA x : x = Lisinopril)) = 1

AddThenRemove(T, D) ==
    update_record_data(update_record_data(LiveRecord, "add", T, D).record, "remove", T, D)

\* C2 as stated: add(medications, D) then remove(medications, D) gives back the
\* medications the record had, also when D was already there or there was no list.
C2_AddRemoveRestoresAlways ==
    \A D \in Terms :
        Get(AddThenRemove("medications", D).record, "medications", Absent)
            = Get(LiveRecord, "medications", Absent)

\* C2 amended: add then remove leaves medications as the list the record had without
\* any entry equal to D (the empty list when it had no list); so it restores the
\* original exactly when that was a list not containing D.
C2_AddRemoveLeavesListWithoutD ==
    \A D \in Terms :
        LET before == ItemsOf(LiveRecord, "medications")
            after == AddThenRemove("medications", D).record
        IN  /\ after.medications = ListVal(SelectSeq(before, LAMBDA x : x # D))
            /\ ("medications" \in DOMAIN LiveRecord /\ IsList(LiveRecord.medications)
                    /\ \A i \in 1..Len(before) : before[i] # D)
                => after = LiveRecord

\* C2 witness: a removal happened on medications, leaving a list that still holds
\* another Lisinopril entry and no entry equal to the one removed
C2_RemovedFromMedications ==
    /\ notices = <<"toast:removed">>
    /\ "medications" \in DOMAIN LiveRecord
    /\ IsList(LiveRecord.medications)
    /\ LiveRecord.medications.items = <<LisinoprilAlt>>

\* the three ClinicalTerm fields of x and d are equal
SameTerm(x, d) ==
    \A i \in 1..Len(required_keys) :
        Get(x, required_keys[i], "") = Get(d, required_keys[i], "")

\* C3 as stated: remove deletes exactly the entries whose three fields equal those of
\* details, in order; with no such entry the record is returned unchanged and
\* not-found is reported.
C3_RemoveAsStated ==
    \A T \in ListTargets, D \in DetailsValues :
        LET before == ItemsOf(LiveRecord, T)
            res == update_record_data(LiveRecord, "remove", T, D)
        IN  /\ ItemsOf(res.record, T) = SelectSeq(before, LAMBDA x : ~SameTerm(x, D))
            /\ (\A i \in 1..Len(before) : ~SameTerm(before[i], D))
                => /\ res.record = LiveRecord
                   /\ res.notices = <<"toast:not_found_for_removal">>

\* C3 amended: with details carrying the three required fields, remove deletes every
\* entry equal to details as a whole dict and no other, in order, and changes no other
\* field; with no equal entry it reports not-found and the list keeps its entries (a
\* missing or non-list target having become the empty list).
C3_RemoveDeletesEqualEntries ==
    \A T \in ListTargets, D \in Terms :
        LET before == ItemsOf(LiveRecord, T)
            res == update_record_data(LiveRecord, "remove", T, D)
            absent == \A i \in 1..Len(before) : before[i] # D
        IN  /\ res.raised = "none"
            /\ res.record = SetItem(LiveRecord, T, ListVal(SelectSeq(before, LAMBDA x : x # D)))
            /\ absent => res.notices = <<"toast:not_found_for_removal">>
            /\ absent => res.record = SetItem(LiveRecord, T, ListVal(before))
            /\ ~absent => res.notices = <<"toast:removed">>

\* C3 witness: a removal was answered not-found on a record that holds entries
C3_RemoveNotFound ==
    /\ notices = <<"toast:not_found_for_removal">>
    /\ \E T \in ListTargets : Len(ItemsOf(LiveRecord, T)) = MaxLen

\* xs with exactly its first entry named as details replaced by details
FirstNamedReplaced(xs, ys, details) ==
    \E i \in 1..Len(xs) :
        /\ xs[i].standard_name = details.standard_name
        /\ \A j \in 1..(i - 1) : xs[j].standard_name # details.standard_name
        /\ ys = [xs EXCEPT ![i] = details]

\* C4 as stated: update replaces the first entry named as details by details and keeps
\* the rest; with no such entry the record is returned unchanged and not-found is
\* reported.
C4_UpdateAsStated ==
    \A T \in ListTargets, D \in DetailsValues :
        LET before == ItemsOf(LiveRecord, T)
            res == update_record_data(LiveRecord, "update", T, D)
        IN  IF HasName(before, Get(D, "standard_name", ""))
            THEN FirstNamedReplaced(before, ItemsOf(res.record, T), D)
            ELSE /\ res.record = LiveRecord
                 /\ res.notices = <<"toast:not_found_for_update">>

\* C4 amended: with details carrying the three required fields, update matches by
\* standard_name only; exactly the first entry with that name becomes details, the
\* other entries, the order, the length and the other fields are kept; with no such
\* entry it reports not-found and the list keeps its entries (a missing or non-list
\* target having become the empty list).
C4_UpdateReplacesFirstByName ==
    \A T \in ListTargets, D \in Terms :
        LET before == ItemsOf(LiveRecord, T)
            res == update_record_data(LiveRecord, "update", T, D)
        IN  /\ res.raised = "none"
            /\ Len(ItemsOf(res.record, T)) = Len(before)
            /\ \A t \in DOMAIN LiveRecord \ {T} : res.record[t] = LiveRecord[t]
            /\ IF HasName(before, D.standard_name)
               THEN /\ FirstNamedReplaced(before, res.record[T].items, D)
                    /\ res.notices = <<"toast:updated">>
               ELSE /\ res.record = SetItem(LiveRecord, T, ListVal(before))
                    /\ res.notices = <<"toast:not_found_for_update">>

\* C4 witness: an update replaced the first of two Lisinopril entries and left the
\* second one alone
C4_UpdatedFirstOfTwo ==
    /\ notices = <<"toast:updated">>
    /\ \E T \in ListTargets :
          ItemsOf(LiveRecord, T) = <<LisinoprilDose, LisinoprilAlt>>

\* C5: with details that lack a required field or are not a dict, every call on a list
\* target returns without raising, reports invalid details and leaves the record equal
\* to its input.
C5_InvalidDetailsLeaveRecord ==
    \A A \in Actions, T \in ListTargets, D \in Malformed :
        LET res == update_record_data(LiveRecord, A, T, D) IN
        /\ res.raised = "none"
        /\ res.notices = <<"error:invalid_details">>
        /\ res.record = LiveRecord

Supported(A, T) ==
    \/ T \in ListTargets /\ A \in {"add", "remove", "update"}
    \/ T = "quick_summary" /\ A = "update"

\* C6: every (action, target) pair outside the supported ones is reported as
\* unsupported and leaves the record unchanged.
C6_UnsupportedReported ==
    \A A \in Actions, T \in Targets, D \in DetailsValues :
        ~Supported(A, T) =>
            LET res == update_record_data(LiveRecord, A, T, D) IN
            /\ res.notices = <<"toast:unsupported">>
            /\ res.record = LiveRecord

---------------------------------------------------------------------------
(* Claims about the chat handler, stated on every step of Spec.  In a       *)
(* step, call' holds what the run was given.                                *)

\* the run got past line 206: something truthy was submitted
Accepted(c) == c.record_context = "json" /\ c.user_prompt # <<>>

\* the transcript the run starts from (the greeting when it is the first render)
TranscriptBefore(p) == IF chat_history[p] = NoHistory THEN <<Greeting>> ELSE chat_history[p]

\* C7: a submission that is empty or only white space changes nothing: no transcript
\* gains an entry, the model is not called, records and store stay as they are.
C7_BlankSubmissionRejected ==
    [][(call'.record_context = "json" /\ Strip(call'.user_prompt) = <<>>)
          => /\ \A p \in PatientIds : Len(chat_history'[p]) <= Len(TranscriptBefore(p))
             /\ model_calls' = 0
             /\ patients' = patients
             /\ store' = store]_vars

\* C8: an accepted submission leaves the transcript of its patient longer by exactly the
\* user entry (the prompt, stripped) followed by one assistant entry - the reply text
\* (stripped; the no-response placeholder when it is empty) if the model call returned,
\* the error text if it raised - touches no other transcript, and lets no exception out.
C8_AcceptedSubmissionAnswered ==
    [][Accepted(call')
          => LET p == call'.patient_id
                 before == TranscriptBefore(p)
                 reply == Strip(call'.response.text)
             IN  /\ raised' = "none"
                 /\ Len(chat_history'[p]) = Len(before) + 2
                 /\ SubSeq(chat_history'[p], 1, Len(before)) = before
                 /\ chat_history'[p][Len(before) + 1]
                        = Entry("user", Strip(call'.user_prompt))
                 /\ chat_history'[p][Len(before) + 2]
                        = Entry("assistant",
                                IF call'.response.raises THEN ModelErrorText
                                ELSE IF reply = <<>> THEN NoResponseText ELSE reply)
                 /\ \A q \in PatientIds \ {p} : chat_history'[q] = chat_history[q]]_vars

\* C8 witness: a second submission in the same conversation was answered with the
\* error text after the model call raised
C8_SecondSubmissionAnswered ==
    /\ Accepted(call)
    /\ call.response.raises
    /\ raised = "none"
    /\ Len(chat_history[call.patient_id]) = 5
    /\ chat_history[call.patient_id][5] = Entry("assistant", ModelErrorText)

\* the reply of run c holds a brace-delimited part that parses as a JSON object whose
\* action (lower-cased, as the code compares it) is add or remove and whose target is
\* problems or medications
CarriesDirective(c) ==
    LET text == AssistantText(c.response.text)
        parsed == json_loads(Candidate(text))
    IN  /\ Accepted(c)
        /\ ~c.response.raises
        /\ BraceIn(LBrace, text)
        /\ BraceIn(RBrace, text)
        /\ parsed.ok
        /\ Lower(Get(parsed.value, "action", "")) \in {"add", "remove"}
        /\ Get(parsed.value, "target", "") \in {"problems", "medications"}

\* C9: a run changes a patient record or writes to the store only if its reply carries
\* an add/remove directive on problems or medications and its patient has a note; a run
\* whose model call returned keeps the reply as the last transcript entry in every case.
C9_MutationOnlyByDirective ==
    [][/\ (patients' # patients \/ store' # store \/ db_writes' > 0)
            => /\ CarriesDirective(call')
               /\ call'.patient_id \in DOMAIN patients
               /\ patients[call'.patient_id].notes # <<>>
       /\ (Accepted(call') /\ ~call'.response.raises)
            => LET h == chat_history'[call'.patient_id] IN
               h[Len(h)] = Entry("assistant", AssistantText(call'.response.text))]_vars

\* C9 witness: the add directive of a reply was applied to the latest note and saved
C9_DirectiveAppliedAndSaved ==
    /\ Accepted(call)
    /\ call.response = Returned(WithDirective(AddLisinopril))
    /\ db_writes = 1
    /\ InList(Lisinopril, LatestRecord(patients[call.patient_id]).medications.items)
    /\ store[call.patient_id] = patients[call.patient_id]

\* the directive of the reply of run c
DirectiveOf(c) == json_loads(Candidate(AssistantText(c.response.text))).value

\* C10: when an add/remove directive with valid details is applied and every write to
\* the store fails, the latest note in memory holds the list as update_record_data left
\* it, the store is unchanged, all max_retries writes were tried, and the run ends with
\* the save error followed by the warning.
C10_FailedSaveKeepsMutation ==
    [][(/\ ReachesSave(call'.patient_id, call'.response)
        /\ Accepted(call')
        /\ Get(DirectiveOf(call'), "details", EmptyDict) \in Terms
        /\ call'.save_failures >= max_retries)
          => LET p == call'.patient_id
                 mod == DirectiveOf(call')
                 upd == update_record_data(LatestRecord(patients[p]), Lower(mod.action),
                                           mod.target, mod.details)
             IN  /\ LatestRecord(patients'[p])[mod.target] = upd.record[mod.target]
                 /\ Len(patients'[p].notes) = Len(patients[p].notes)
                 /\ store' = store
                 /\ db_writes' = max_retries
                 /\ raised' = "none"
                 /\ SubSeq(notices', Len(notices') - 1, Len(notices'))
                        = <<"error:save_failed_after_retries",
                            "warning:local_update_save_failed">>]_vars

\* C10 witness: after a run whose five writes failed the session holds Lisinopril in
\* the medications of the latest note and the store does not
C10_UnsavedMutationInMemory ==
    /\ Accepted(call)
    /\ call.save_failures = max_retries
    /\ db_writes = max_retries
    /\ notices[Len(notices)] = "warning:local_update_save_failed"
    /\ InList(Lisinopril, LatestRecord(patients[call.patient_id]).medications.items)
    /\ ~InList(Lisinopril, LatestRecord(store[call.patient_id]).medications.items)

\* what update_record_data gives for the directive of run c on the latest record
DirectiveUpdate(c) ==
    LET mod == DirectiveOf(c) IN
    update_record_data(LatestRecord(patients[c.patient_id]), Lower(Get(mod, "action", "")),
                       Get(mod, "target", ""), Get(mod, "details", EmptyDict))

\* run c applies a directive: update_record_data returns and line 267 is reached
AppliesDirective(c) ==
    /\ Accepted(c)
    /\ ReachesSave(c.patient_id, c.response)
    /\ DirectiveUpdate(c).raised = "none"

\* C12: when a directive is applied, quick_summary of the latest record becomes the
\* model's text (stripped) if that is not empty, and stays what it was if the text is
\* empty or the model raises; problems and medications are as update_record_data left
\* them; no exception leaves the run; and the record is written back and a save is
\* attempted, the run ending with the success toast or the save-failed warning.
C12_SummaryOnlyOnText ==
    [][AppliesDirective(call')
          => LET p == call'.patient_id
                 sr == call'.summary_response
                 text == IF sr.raises THEN "" ELSE StripStr(sr.summary)
                 upd == DirectiveUpdate(call')
                 after == LatestRecord(patients'[p])
             IN  /\ after.quick_summary
                        = IF text # "" THEN text ELSE LatestRecord(patients[p]).quick_summary
                 /\ \A t \in ListTargets :
                        /\ (t \in DOMAIN after) = (t \in DOMAIN upd.record)
                        /\ t \in DOMAIN after => after[t] = upd.record[t]
                 /\ raised' = "none"
                 /\ model_calls' = 2
                 /\ db_writes' >= 1
                 /\ call'.save_failures < max_retries => store'[p] = patients'[p]
                 /\ notices'[Len(notices')]
                        \in {"toast:record_updated", "warning:local_update_save_failed"}]_vars

\* C12 witness: the summary call of an applied remove directive raised; the record keeps
\* the summary an earlier turn had regenerated, and the record was saved
C12_SummaryKeptWhenModelRaises ==
    /\ Accepted(call)
    /\ call.response = Returned(WithDirective(RemoveLisinopril))
    /\ call.summary_response = SummaryRaises
    /\ \E i \in 1..Len(notices) : notices[i] = "toast:summary_failed"
    /\ notices[Len(notices)] = "toast:record_updated"
    /\ LatestRecord(patients[call.patient_id]).quick_summary
            = "Takes lisinopril for hypertension."
    /\ store[call.patient_id] = patients[call.patient_id]

\* C13: a run whose add/remove directive on problems or medications has details that are
\* a dict lacking a required field leaves the patient's entry in the session and the
\* stored document as they were.
C13_MalformedDetailsNoChange ==
    [][(/\ Accepted(call')
        /\ ReachesSave(call'.patient_id, call'.response)
        /\ LET det == Get(DirectiveOf(call'), "details", EmptyDict) IN
               /\ "py_type" \notin DOMAIN det
               /\ \E i \in 1..Len(required_keys) : required_keys[i] \notin DOMAIN det)
          => /\ patients'[call'.patient_id] = patients[call'.patient_id]
             /\ store'[call'.patient_id] = store[call'.patient_id]]_vars

\* C14: a run for patient p leaves every other patient's entry in the session and in the
\* store as it was, adds or removes no patient and no note, and in p's entry changes
\* nothing but the raw_data of the last note; p's stored document is what it was or p's
\* entry in the session.
C14_OnlyLatestRawDataChanges ==
    [][LET p == call'.patient_id IN
       /\ DOMAIN patients' = DOMAIN patients
       /\ DOMAIN store' = DOMAIN store
       /\ \A q \in DOMAIN patients \ {p} : patients'[q] = patients[q]
       /\ \A q \in DOMAIN store \ {p} : store'[q] = store[q]
       /\ \A q \in DOMAIN patients :
            LET old == patients[q].notes
                new == patients'[q].notes
            IN  /\ patients'[q].name = patients[q].name
                /\ patients'[q].date_added = patients[q].date_added
                /\ Len(new) = Len(old)
                /\ \A i \in 1..(Len(old) - 1) : new[i] = old[i]
                /\ old # <<>> =>
                      /\ new[Len(old)].date_of_service = old[Len(old)].date_of_service
                      /\ new[Len(old)].summary = old[Len(old)].summary
       /\ \A q \in DOMAIN store : store'[q] \in {store[q], patients'[q]}]_vars

\* C14 witness: a directive changed the record of the latest note of P-1001 and was
\* saved; the older note and P-1002 are what they were at the start
C14_LatestNoteChangedOlderKept ==
    /\ Accepted(call)
    /\ call.patient_id = "P-1001"
    /\ db_writes = 1
    /\ LatestRecord(patients["P-1001"]) \notin ChatRecords
    /\ patients["P-1001"].notes[1] = Note(OlderRecord)
    /\ store["P-1001"] = patients["P-1001"]
    /\ patients["P-1002"] = Patient("John Smith", <<>>)
    /\ store["P-1002"] = Patient("John Smith", <<>>)

---------------------------------------------------------------------------
(* Claims about the store adapter and the session, stated on every step of *)
(* StoreSpec and AppSpec.  In a step, call' holds what the run was given.   *)

\* the patients of session s after the step
SessionPatientsAfter(s) == IF s = "this" THEN patients' ELSE peer_patients'

\* the delays slept when the first `failures` calls raise: 1, 2, 4, 8, none after the
\* last of the five attempts
DelaysAfter(failures) == SubSeq(<<1, 2, 4, 8>>, 1, IF failures < 4 THEN failures ELSE 4)

\* C11: with the first f calls to the store raising, a save makes f + 1 writes (five at
\* most), sleeps 1, 2, 4, 8 between them and nothing after the fifth; it returns true and
\* the document is stored when f < 5, and returns false with the store unchanged when all
\* five raise.  A load sleeps the same delays and returns the documents of the store when
\* f < 5 and the empty map when all five raise.  No exception leaves either.
C11_BoundedRetryWithBackoff ==
    [][/\ (call'.op = "add_patient" /\ call'.new_name # "" /\ db = "Ready")
            => LET f == call'.save_failures[1]
                   id == new_id(SessionPatients(call'.session))
               IN  /\ raised' = "none"
                   /\ sleeps' = DelaysAfter(f)
                   /\ db_writes' = IF f < 5 THEN f + 1 ELSE 5
                   /\ f < 5 => /\ id \in DOMAIN store'
                               /\ store'[id].name = call'.new_name
                               /\ notices' = <<"success:patient_added">>
                   /\ f >= 5 => /\ store' = store
                                /\ notices' = <<"error:save_failed_after_retries",
                                                "error:could_not_save_patient">>
       /\ (call'.op = "save_demo_patient" /\ db = "Ready")
            => LET f == call'.save_failures[1]
                   id == call'.patient_id
               IN  /\ raised' = "none"
                   /\ sleeps' = DelaysAfter(f)
                   /\ db_writes' = IF f < 5 THEN f + 1 ELSE 5
                   /\ f < 5 => id \in DOMAIN store' /\ notices' = <<>>
                   /\ f >= 5 => /\ store' = store
                                /\ notices' = <<"error:save_failed_after_retries">>
       /\ (call'.op = "initialize_state" /\ db = "Ready" /\ load_cache = NotCached)
            => LET f == call'.load_failures
                   empty == f >= 5 \/ DOMAIN store = {}
               IN  /\ raised' = "none"
                   /\ f < 5 => load_cache' = store /\ notices' = <<>>
                   /\ f >= 5 => /\ DOMAIN load_cache' = {}
                                /\ notices' = <<"error:load_failed_after_retries">>
                   /\ ~empty => SessionPatientsAfter(call'.session) = store
                   /\ sleeps' = DelaysAfter(f)
                   /\ store' = store]_vars

\* C11 witness: a patient was added by the fifth write, after four failures and the
\* delays 1, 2, 4, 8
C11_SavedOnFifthAttempt ==
    /\ call.op = "add_patient"
    /\ call.save_failures = <<4>>
    /\ sleeps = <<1, 2, 4, 8>>
    /\ db_writes = 5
    /\ notices = <<"success:patient_added">>
    /\ \E id \in DOMAIN store : store[id].name = call.new_name

\* the run of call c reaches a save_patient_data call for patient `id`
SavesPatient(c, id) ==
    \/ /\ c.op = "add_patient"
       /\ c.new_name # ""
       /\ id = new_id(SessionPatients(c.session))
    \/ /\ c.op = "synthesize"
       /\ c.synthesis.json
       /\ id = c.patient_id
    \/ /\ c.op = "chat"
       /\ AppliesDirective(c.chat)
       /\ id = c.patient_id

\* the change the run of call c makes for patient `id` is in entry e
HoldsChange(c, id, e) ==
    \/ c.op = "add_patient" /\ e.name = c.new_name
    \/ /\ c.op = "synthesize"
       /\ Len(e.notes) = Len(SessionPatients(c.session)[id].notes) + 1
       /\ e.notes[Len(e.notes)].raw_data = c.synthesis.data
    \/ /\ c.op = "chat"
       /\ LET t == DirectiveOf(c.chat).target IN
          LatestRecord(e)[t] = DirectiveUpdate(c.chat).record[t]

\* C15: in every run that saves patient p (add patient, synthesis, chat directive): if
\* the save succeeds, the stored document of p equals the session's entry of p; if it
\* fails, the session holds the change and the run ends with a warning that it is not
\* saved.
C15_SavesReconcile ==
    [][\A id \in DOMAIN store' \cup DOMAIN SessionPatientsAfter(call'.session)
                \cup {new_id(SessionPatients(call'.session))} :
          SavesPatient(call', id)
            => LET after == SessionPatientsAfter(call'.session)
                   saved == db = "Ready" /\ call'.save_failures[1] < max_retries
               IN  /\ saved => /\ id \in DOMAIN after
                               /\ id \in DOMAIN store'
                               /\ store'[id] = after[id]
                   /\ ~saved => /\ id \in DOMAIN after
                                /\ HoldsChange(call', id, after[id])
                                /\ notices'[Len(notices')]
                                      \in {"warning:synthesized_not_saved",
                                           "warning:local_update_save_failed"}]_vars

\* C16: no step of the first run of a session (the load, the saves of the demo patients)
\* changes a document stored under P-1001 or P-1002.
C16_InitKeepsStoredDocuments ==
    [][call'.op \in {"initialize_state", "save_demo_patient"}
          => \A id \in {"P-1001", "P-1002"} \cap DOMAIN store :
                id \in DOMAIN store' /\ store'[id] = store[id]]_vars

\* C17: a successful add-patient writes under an id that is not yet a key of the store,
\* and no run changes the stored document of another patient.
C17_AddNeverOverwrites ==
    [][(/\ call'.op = "add_patient"
        /\ call'.new_name # ""
        /\ db = "Ready"
        /\ call'.save_failures[1] < max_retries)
          => LET id == new_id(SessionPatients(call'.session)) IN
             /\ id \notin DOMAIN store
             /\ \A other \in DOMAIN store : other \in DOMAIN store' /\ store'[other] = store[other]]_vars

=============================================================================
